---- MODULE Spec2Model ----
(***************************************************************************)
(* A model of the labware bookkeeping, robot routines and utilities of    *)
(* sdl2_solid_dosing_XG:                                                   *)
(*   resources/resource_handler.py  Handler (grid and tray creation)       *)
(*   robot/resources/containers.py  BaseContainer, Container, vial_stock,  *)
(*                                  vial_sample, Holder, Tray              *)
(*   robot/robot_control_URArm.py   URController (pick and transfer        *)
(*                                  routines)                              *)
(*   workflow/rob_dos_workflow.py   the scripted dosing workflow           *)
(*   utils/error_handling.py        socket_timeout_retry,                  *)
(*                                  balance_error_retry                    *)
(*   utils/component_manager.py     ComponentManager                       *)
(*   workflow/ot_flex_pH_batch.py   PhProtocol.run_batch                   *)
(*                                                                         *)
(* Conventions.  A Python value that may be None is a sequence of length   *)
(* at most one: None is <<>> and a present value v is <<v>>.  A dict (all  *)
(* dicts here keep insertion order) is a sequence of <<key, value>> pairs  *)
(* with distinct keys.  A Python object is named by where it lives: a      *)
(* container by the tray that holds it and its well.  Volumes (ml) and     *)
(* weights (mg) are integers.  An exception is the name of its class in    *)
(* the field exc of the variable outcome; "None" stands for a normal       *)
(* return.                                                                 *)
(***************************************************************************)
EXTENDS Integers, Sequences, FiniteSets, TLC

VARIABLES
    trays,        \* tray name -> Tray object (tray_name, wells)
    files,        \* tray name -> what Tray.json_file holds (None: no file yet)
    outcome,      \* the last call: its arguments, what it raised or returned
    rob_loc,      \* URController._rob_loc
    gripper_item, \* URController._gripper_item
    picks,        \* wells the gripper closed on, in order: <<tray, well>>
    tracked,      \* the volumes volume_tracking accepted, in order
    weighed,      \* the measurements add_weight_measurement wrote, in order
    grid_args,    \* the arguments of Handler.create_grid
    grid,         \* what Handler.create_grid returned (None: not yet called)
    sent,         \* gripper and motion commands the last routine sent
    retry,        \* a call of a method wrapped by a retry decorator
    manager,      \* the ComponentManager, its usage files, the cleanup calls
    workflow,     \* the script rob_dos_workflow: where it is
    protocol      \* PhProtocol.run_batch: where it is, what it told the deck

vars == <<trays, files, outcome, rob_loc, gripper_item, picks, tracked, weighed,
          grid_args, grid, sent, retry, manager, workflow, protocol>>

trayVars == <<trays, files, outcome>>
logVars == <<tracked, weighed>>
robotVars == <<rob_loc, gripper_item, picks, sent>>
gridVars == <<grid_args, grid>>
utilVars == <<retry, manager, protocol>>

\* What the actions of one part leave alone.
NotTray == <<robotVars, logVars, gridVars, utilVars, workflow>>
NotRobot == <<files, logVars, gridVars, utilVars>>
NotGrid == <<trayVars, logVars, robotVars, utilVars, workflow>>

---------------------------------------------------------------------------
(* Python values *)

None == <<>>
Some(v) == <<v>>
Val(o) == o[1]

DictKeys(d) == [i \in 1..Len(d) |-> d[i][1]]
DictValues(d) == [i \in 1..Len(d) |-> d[i][2]]
DictHas(d, k) == \E i \in 1..Len(d) : d[i][1] = k
DictGet(d, k) == d[CHOOSE i \in 1..Len(d) : d[i][1] = k][2]
\* d[k] = v: an existing key keeps its place, a new key goes last.
DictSet(d, k, v) ==
    IF DictHas(d, k)
    THEN [i \in 1..Len(d) |-> IF d[i][1] = k THEN <<k, v>> ELSE d[i]]
    ELSE Append(d, <<k, v>>)

RECURSIVE SumSeq(_)
SumSeq(s) == IF s = <<>> THEN 0 ELSE Head(s) + SumSeq(Tail(s))

---------------------------------------------------------------------------
(* Bounds and the inputs offered to the calls *)

\* numbers of the vial_stock tray: A1 .. A<StockRows>
StockRows == 2
\* integer keys offered to tray[key]: -MaxIndex .. MaxIndex
MaxIndex == 3

\* volumes offered to add_content: -1 .. MaxValue
MaxValue == 3
\* volumes offered to volume_tracking: -1 .. MaxVolume
MaxVolume == 17
\* accepted volume_tracking calls followed
MaxTracked == 3
\* weights offered to add_weight_measurement: -1 .. MaxWeight
MaxWeight == 1
\* written measurements followed
MaxWeighed == 3

\* holders of the holder tray: A1 .. A<HolderRows>
HolderRows == 2
\* picks of the gripper followed
MaxPicks == 3
\* rows offered to create_grid: 0 .. MaxRows
MaxRows == 2
\* columns offered to create_grid: 0 .. MaxColumns
MaxColumns == 27
\* entries each LC list of a vial_stock may get
MaxLc == 1

Values == {0 - 1} \cup (0..MaxValue)
Volumes == {0 - 1} \cup (0..MaxVolume)
Weights == {0 - 1} \cup (0..MaxWeight)
ContentKeys == {"k1", "k2"}
Layers == {"top", "bottom"}
SampleNames == {"empty", "Empty", "a", "b"}

\* What is offered to Holder.add_container: two containers and an object
\* that is no BaseContainer.
Objects ==
    {[isBase |-> TRUE, id |-> "c1"], [isBase |-> TRUE, id |-> "c2"],
     [isBase |-> FALSE, id |-> "x"]}

\* Well names offered to the pick routines.
RobotLocs == {"A1", "A2", "Z9"}

TrayKeys == {"k1"}
TrayValues == {0, 1}
TraySamples == {"empty"}

Keys ==
    {[kind |-> "int", i |-> i] : i \in (0 - MaxIndex)..MaxIndex} \cup
    {[kind |-> "str", s |-> k] : k \in {"A1", "A2", "B1", "Z9", "uuid-vial_stock-A1", "uuid-vial_stock-B1", "uuid-0"}}

---------------------------------------------------------------------------
(* resources/resource_handler.py *)

Location(position, orientation) ==
    [position |-> position, orientation |-> orientation]

ascii_uppercase ==
    << "A", "B", "C", "D", "E", "F", "G", "H", "I", "J", "K", "L", "M",
       "N", "O", "P", "Q", "R", "S", "T", "U", "V", "W", "X", "Y", "Z" >>

\* s[:n]
SliceTo(s, n) ==
    LET m == IF n >= 0 THEN (IF n < Len(s) THEN n ELSE Len(s))
             ELSE (IF Len(s) + n > 0 THEN Len(s) + n ELSE 0)
    IN  SubSeq(s, 1, m)

\* range(1, n + 1)
RangeFrom1(n) == [c \in 1..n |-> c]

\* f"{r}{c}"
WellKey(r, c) == r \o ToString(c)

\* A location argument is the dict of the locations file, {'l': [...]},
\* or the bare six-element list.
_translate(location, x, y, z) ==
    LET l == IF location.kind = "dict" THEN location.l ELSE location.v
    IN  Location(<<l[1] + x, l[2] + y, l[3] + z>>, <<l[4], l[5], l[6]>>)

\* The inner loop of create_grid: the wells of letter r (the i-th, from 0),
\* for the numbers of grid_rows from position n on.
RECURSIVE GridRowLoop(_, _, _, _, _, _, _)
GridRowLoop(grid_dict, A1, spacing, i, r, grid_rows, n) ==
    IF n > Len(grid_rows) THEN grid_dict
    ELSE LET c == grid_rows[n]
             x_diff == (0 - spacing[1]) * i
             y_diff == (0 - spacing[2]) * (c - 1)
             key == WellKey(r, c)
             grid_next == DictSet(grid_dict, key, _translate(A1, x_diff, y_diff, 0))
         IN  \* The test holds always; it has TLC evaluate the dict before the
             \* next iteration instead of nesting the pending updates.
             IF DictHas(grid_next, key)
             THEN GridRowLoop(grid_next, A1, spacing, i, r, grid_rows, n + 1)
             ELSE grid_next

\* The outer loop of create_grid, from the letter at position k on.
RECURSIVE GridColumnLoop(_, _, _, _, _, _)
GridColumnLoop(grid_dict, A1, spacing, grid_columns, grid_rows, k) ==
    IF k > Len(grid_columns) THEN grid_dict
    ELSE LET grid_next ==
                 GridRowLoop(grid_dict, A1, spacing, k - 1, grid_columns[k], grid_rows, 1)
         IN  \* As above: the test holds always.
             IF Len(grid_next) >= Len(grid_dict)
             THEN GridColumnLoop(grid_next, A1, spacing, grid_columns, grid_rows, k + 1)
             ELSE grid_next

create_grid(A1_vial_location, rows, columns, spacing) ==
    LET grid_columns == SliceTo(ascii_uppercase, columns)
        grid_rows == RangeFrom1(rows)
    IN  GridColumnLoop(<<>>, A1_vial_location, spacing, grid_columns, grid_rows, 1)

---------------------------------------------------------------------------
(* robot/resources/containers.py: the container classes *)

ContainerClasses == {"vial_stock", "dose_stock", "dose_stock_back"}
BaseContainerClasses == ContainerClasses \cup {"vial_sample"}

\* What an operation on one container leaves: the container, the exception
\* raised ("None": none) and whether it reached _update_plate_json.
Done(c, save) == [c |-> c, exc |-> "None", save |-> save]
Raised(c, exc) == [c |-> c, exc |-> exc, save |-> FALSE]

BaseContainer(cls, well_name, tray_name, location) ==
    [cls |-> cls,
     unique_id |-> None,
     user_defined_id |-> None,
     well_name |-> well_name,
     tray_name |-> tray_name,
     tray |-> None,
     used |-> FALSE,
     location |-> location,
     empty_weight_mg |-> None,
     weight_history |-> <<>>,
     measured_weight |-> <<>>,
     last_weight_mg |-> None]      \* None: the attribute does not exist yet

Container(cls, well_name, tray_name, location, volume_ml) ==
    BaseContainer(cls, well_name, tray_name, location) @@
    [contents |-> <<>>,
     total_volume |-> 0,
     min_volume_ml |-> volume_ml[1],
     max_volume_ml |-> volume_ml[2]]

vial_stock(well_name, tray_name, location, volume_ml) ==
    Container("vial_stock", well_name, tray_name, location, volume_ml) @@
    [cap |-> TRUE,
     layer |-> None,
     lc_data_dir |-> <<>>,
     lc_peaks |-> <<>>,
     lc_instrument_parameters |->
         [injection_volume |-> <<>>, method |-> <<>>, instrument_location |-> <<>>]]

vial_sample(well_name, tray_name, location, volume_ml) ==
    BaseContainer("vial_sample", well_name, tray_name, location) @@
    [min_volume_ml |-> volume_ml[1],
     max_volume_ml |-> volume_ml[2],
     total_volume |-> 0,
     solvent_name |-> None]

Holder(well_name, location) ==
    [cls |-> "Holder",
     well_name |-> well_name,
     location |-> location,
     mlh_location |-> None,
     container |-> None,
     used |-> FALSE,
     tray |-> None]                \* set by Tray._add_plate

\* str(uuid.uuid4()): a value no other container carries.  The model names
\* it after the container that receives it, which keeps the ids distinct
\* (and distinct from every well name) without an order of allocation.
Uuid(c) == "uuid-" \o c.tray_name \o "-" \o c.well_name

_assign_uuid(c) ==
    IF c.unique_id # None THEN c ELSE [c EXCEPT !.unique_id = Some(Uuid(c))]

\* The setter of BaseContainer.used (value is a bool throughout).
SetUsed(c, value) == _assign_uuid([c EXCEPT !.used = value])

\* sample_name.lower(), on the sample names of the model.
Lower(name) ==
    CASE name \in {"empty", "Empty", "EMPTY"} -> "empty"
      [] name \in {"a", "A"} -> "a"
      [] OTHER -> name

\* add_weight_measurement taking every addition relative to the empty weight.
BaseContainer_add_weight_measurement_from_empty(c, sample_name, weight) ==
    LET c1 == IF ~c.used THEN SetUsed(c, TRUE) ELSE c
        c2 == [c1 EXCEPT !.weight_history = DictSet(@, sample_name, weight)]
    IN  IF weight < 0 THEN Raised(c1, "ValueError")
        ELSE IF Lower(sample_name) = "empty"
        THEN Done([c2 EXCEPT !.empty_weight_mg = Some(weight),
                             !.last_weight_mg = Some(weight)], TRUE)
        ELSE IF c2.last_weight_mg = None THEN Raised(c2, "AttributeError")
        ELSE LET added_weight == weight - Val(c2.empty_weight_mg)
             IN  Done([c2 EXCEPT !.measured_weight = DictSet(@, sample_name, added_weight),
                                 !.last_weight_mg = Some(weight)], TRUE)

BaseContainer_add_weight_measurement(c, sample_name, weight) ==
    LET c1 == IF ~c.used THEN SetUsed(c, TRUE) ELSE c
        c2 == [c1 EXCEPT !.weight_history = DictSet(@, sample_name, weight)]
    IN  IF weight < 0 THEN Raised(c1, "ValueError")
        ELSE IF Lower(sample_name) = "empty"
        THEN Done([c2 EXCEPT !.empty_weight_mg = Some(weight),
                             !.last_weight_mg = Some(weight)], TRUE)
        ELSE IF c2.last_weight_mg = None THEN Raised(c2, "AttributeError")
        ELSE LET added_weight == weight - Val(c2.last_weight_mg)
             IN  Done([c2 EXCEPT !.measured_weight = DictSet(@, sample_name, added_weight),
                                 !.last_weight_mg = Some(weight)], TRUE)

\* add_content without its test against max_volume_ml.
Container_add_content_unlimited(c, key, value) ==
    LET c1 == IF ~c.used THEN SetUsed(c, TRUE) ELSE c
    IN  IF value <= 0 THEN Raised(c1, "ValueError")
        ELSE LET contents == IF DictHas(c1.contents, key)
                             THEN DictSet(c1.contents, key, DictGet(c1.contents, key) + value)
                             ELSE DictSet(c1.contents, key, value)
             IN  Done([c1 EXCEPT !.contents = contents,
                                 !.total_volume = SumSeq(DictValues(contents))], TRUE)

Container_add_content(c, key, value) ==
    LET c1 == IF ~c.used THEN SetUsed(c, TRUE) ELSE c
    IN  IF value <= 0 THEN Raised(c1, "ValueError")
        ELSE IF c1.total_volume + value > c1.max_volume_ml THEN Raised(c1, "ValueError")
        ELSE LET contents == IF DictHas(c1.contents, key)
                             THEN DictSet(c1.contents, key, DictGet(c1.contents, key) + value)
                             ELSE DictSet(c1.contents, key, value)
             IN  Done([c1 EXCEPT !.contents = contents,
                                 !.total_volume = SumSeq(DictValues(contents))], TRUE)

Container_add_min_volume(c, value) ==
    IF value < 0 THEN Raised(c, "ValueError")
    ELSE Done([c EXCEPT !.min_volume_ml = value], FALSE)

vial_stock_add_layer_aliquot(c, layer, volume) ==
    Container_add_content([c EXCEPT !.layer = Some(layer)], layer, volume)

vial_stock_update_lc_instrument_parameters(c, injection_volume, method, instrument_location) ==
    Done([c EXCEPT
            !.lc_instrument_parameters.injection_volume = Append(@, injection_volume),
            !.lc_instrument_parameters.method = Append(@, method),
            !.lc_instrument_parameters.instrument_location = Append(@, instrument_location)],
         TRUE)

vial_stock_add_lc_data_directory(c, path) ==
    Done([c EXCEPT !.lc_data_dir = Append(@, path)], TRUE)

vial_stock_add_lc_peaks(c, peaks) ==
    Done([c EXCEPT !.lc_peaks = Append(@, peaks)], TRUE)

\* total_volume = + volume_ml
vial_sample_volume_tracking(c, volume_ml) ==
    IF volume_ml < 0 THEN Raised(c, "ValueError")
    ELSE LET available_volume == c.max_volume_ml - c.total_volume
         IN  IF volume_ml > available_volume THEN Raised(c, "ValueError")
             ELSE Done([c EXCEPT !.total_volume = 0 + volume_ml], FALSE)

vial_sample_add_solvent_info(c, solvent_name, user_id) ==
    Done([c EXCEPT !.solvent_name = Some(solvent_name),
                   !.user_defined_id = Some(user_id)], FALSE)

\* A container to put into a holder: any object; isBase says whether it is
\* a BaseContainer instance.
Holder_add_container(h, container) ==
    IF ~container.isBase THEN Raised(h, "ValueError")
    ELSE IF h.container # None \/ h.used THEN Raised(h, "ValueError")
    ELSE Done([h EXCEPT !.container = Some(container), !.used = TRUE], FALSE)

Holder_remove_container(h) ==
    IF h.container # None
    THEN Done([h EXCEPT !.container = None, !.used = FALSE], FALSE)
    ELSE Raised(h, "ValueError")

\* get_info of BaseContainer and of Container.  A key whose value is None is
\* left out of the summary; here it keeps the value None.
get_info(c) ==
    IF c.cls \in ContainerClasses
    THEN [well_name |-> c.well_name,
          tray_name |-> c.tray_name,
          unique_id |-> c.unique_id,
          user_defined_id |-> c.user_defined_id,
          weight_history |-> c.weight_history,
          total_volume |-> c.total_volume,
          contents |-> c.contents,
          units |-> [liquid |-> "ml", solid |-> "mg"],
          empty_weight_mg |-> c.empty_weight_mg]
    ELSE [well_name |-> c.well_name,
          tray_name |-> c.tray_name,
          unique_id |-> c.unique_id,
          user_defined_id |-> c.user_defined_id,
          weight_history |-> c.weight_history,
          measured_weight |-> c.measured_weight,
          empty_weight_mg |-> c.empty_weight_mg]

---------------------------------------------------------------------------
(* robot/resources/containers.py: Tray *)

\* Handler.CONTAINER_INFO[tray_name]['volumes']
CONTAINER_INFO_volumes(tray_name) ==
    CASE tray_name = "vial_stock" -> <<0, 2>>
      [] tray_name = "dose_stock" -> <<0, 1>>
      [] tray_name = "dose_stock_back" -> <<0, 1>>
      [] tray_name = "vial_sample" -> <<2, 16>>

\* container_class(**container_args)
NewWell(container_class, well, tray_name, location, volume_ml) ==
    CASE container_class = "Holder" -> Holder(well, location)
      [] container_class = "vial_stock" -> vial_stock(well, tray_name, location, volume_ml)
      [] container_class = "vial_sample" -> vial_sample(well, tray_name, location, volume_ml)
      [] OTHER -> Container(container_class, well, tray_name, location, volume_ml)

\* {container.well_name: container for container in wells}, then _add_plate
RECURSIVE WellsDict(_, _, _, _)
WellsDict(d, wells, n, tray_name) ==
    IF n > Len(wells) THEN d
    ELSE WellsDict(DictSet(d, wells[n].well_name, [wells[n] EXCEPT !.tray = Some(tray_name)]),
                   wells, n + 1, tray_name)

Tray(tray_name, wells) ==
    [tray_name |-> tray_name, wells |-> WellsDict(<<>>, wells, 1, tray_name)]

from_container_class(container_class, tray_name, locations, volume_ml) ==
    Tray(tray_name,
         [n \in 1..Len(locations) |->
             NewWell(container_class, locations[n][1], tray_name, locations[n][2], volume_ml)])

initialize_tray(tray_name, locations) ==
    from_container_class(tray_name, tray_name, locations, CONTAINER_INFO_volumes(tray_name))

make_tray(top_left, rows, columns, spacing, tray_name) ==
    initialize_tray(tray_name, create_grid(top_left, rows, columns, spacing))

\* What a Tray method leaves: the tray's wells, the exception raised, whether
\* _update_plate_json was reached.
TrayDone(tray, well_name, r) ==
    [tray |-> [tray EXCEPT !.wells = DictSet(@, well_name, r.c)],
     exc |-> r.exc, save |-> r.save]
TrayRaised(tray, exc) == [tray |-> tray, exc |-> exc, save |-> FALSE]

\* for container in self.wells.values(): if not container.used: return container
RECURSIVE NextAvailableLoop(_, _)
NextAvailableLoop(wells, n) ==
    IF n > Len(wells) THEN None
    ELSE IF ~wells[n][2].used THEN Some(wells[n][2].well_name)
    ELSE NextAvailableLoop(wells, n + 1)

\* The scan with its test inverted: the first container that is used.
RECURSIVE NextUsedLoop(_, _)
NextUsedLoop(wells, n) ==
    IF n > Len(wells) THEN None
    ELSE IF wells[n][2].used THEN Some(wells[n][2].well_name)
    ELSE NextUsedLoop(wells, n + 1)

get_next_available_inverted(tray) == NextUsedLoop(tray.wells, 1)

get_next_available(tray) == NextAvailableLoop(tray.wells, 1)

mark_used(tray, container, used) ==
    IF DictHas(tray.wells, container.well_name)
    THEN LET w == DictGet(tray.wells, container.well_name)
         IN  TrayDone(tray, container.well_name,
                      Done(IF w.cls = "Holder" THEN [w EXCEPT !.used = used]
                           ELSE SetUsed(w, used), FALSE))
    ELSE TrayRaised(tray, "ValueError")

Tray_add_content(tray, container, key, value) ==
    IF DictHas(tray.wells, container.well_name)
    THEN LET w == DictGet(tray.wells, container.well_name)
         IN  IF w.cls \in ContainerClasses
             THEN TrayDone(tray, container.well_name, Container_add_content(w, key, value))
             ELSE TrayRaised(tray, "AttributeError")
    ELSE TrayRaised(tray, "ValueError")

Tray_add_weight_measurement(tray, container, sample_name, weight) ==
    IF DictHas(tray.wells, container.well_name)
    THEN LET w == DictGet(tray.wells, container.well_name)
         IN  IF w.cls \in BaseContainerClasses
             THEN TrayDone(tray, container.well_name,
                           BaseContainer_add_weight_measurement(w, sample_name, weight))
             ELSE TrayRaised(tray, "AttributeError")
    ELSE TrayRaised(tray, "ValueError")

get_summary(tray) ==
    [tray_name |-> tray.tray_name,
     containers |-> [n \in 1..Len(tray.wells) |->
                        <<tray.wells[n][1], get_info(tray.wells[n][2])>>]]

\* json.dump(self.get_summary(), f): the file holds the summary.
save_to_json(fs, tray) == [fs EXCEPT ![tray.tray_name] = Some(get_summary(tray))]

\* A key is an int ([kind |-> "int", i |-> k]) or a str ([kind |-> "str",
\* s |-> k]).  list(...)[k] counts a negative k from the end.
RECURSIVE UniqueIdLoop(_, _, _)
UniqueIdLoop(wells, n, key) ==
    IF n > Len(wells) THEN None
    ELSE IF wells[n][2].unique_id = Some(key) THEN Some(wells[n][2].well_name)
    ELSE UniqueIdLoop(wells, n + 1, key)

\* The lookup without its search by unique_id.
Tray___getitem___by_name_only(tray, key) ==
    LET n == Len(tray.wells)
    IN  IF key.kind = "int"
        THEN IF key.i >= 0 - n /\ key.i < n
             THEN [exc |-> "None",
                   ret |-> Some(tray.wells[IF key.i >= 0 THEN key.i + 1 ELSE n + key.i + 1][2].well_name)]
             ELSE [exc |-> "IndexError", ret |-> None]
        ELSE IF DictHas(tray.wells, key.s)
        THEN [exc |-> "None", ret |-> Some(DictGet(tray.wells, key.s).well_name)]
        ELSE [exc |-> "KeyError", ret |-> None]

Tray___getitem__(tray, key) ==
    LET n == Len(tray.wells)
    IN  IF key.kind = "int"
        THEN IF key.i >= 0 /\ key.i < n
             THEN [exc |-> "None", ret |-> Some(tray.wells[key.i + 1][2].well_name)]
             ELSE IF key.i < 0 /\ key.i >= 0 - n
             THEN [exc |-> "None", ret |-> Some(tray.wells[n + key.i + 1][2].well_name)]
             ELSE [exc |-> "IndexError", ret |-> None]
        ELSE IF DictHas(tray.wells, key.s)
        THEN [exc |-> "None", ret |-> Some(DictGet(tray.wells, key.s).well_name)]
        ELSE LET found == UniqueIdLoop(tray.wells, 1, key.s)
             IN  IF found # None THEN [exc |-> "None", ret |-> found]
                 ELSE [exc |-> "KeyError", ret |-> None]

---------------------------------------------------------------------------
(* Calls on the trays *)

NoCall ==
    [op |-> "", tray |-> "", from |-> "", well |-> "", key |-> "", num |-> 0,
     flag |-> FALSE, exc |-> "None", ret |-> None]

\* A call of method op of tray t, or of the container of tray t at well.
Call(op, t, well) == [NoCall EXCEPT !.op = op, !.tray = t, !.from = t, !.well = well]

TrayNames == DOMAIN trays
WellNames(t) == {trays[t].wells[n][1] : n \in 1..Len(trays[t].wells)}
WellAt(t, w) == DictGet(trays[t].wells, w)

\* if self.tray: self.tray.save_to_json()
_update_plate_json(fs, c, ts) ==
    IF c.tray # None THEN save_to_json(fs, ts[Val(c.tray)]) ELSE fs

\* A method of the container of tray t at well w ran and left r.
ContainerStep(t, w, r, call) ==
    /\ trays' = [trays EXCEPT ![t].wells = DictSet(@, w, r.c)]
    /\ files' = IF r.save THEN _update_plate_json(files, r.c, trays') ELSE files
    /\ outcome' = [call EXCEPT !.exc = r.exc]

\* A method of tray t ran and left r.
TrayStep(t, r, call) ==
    /\ trays' = [trays EXCEPT ![t] = r.tray]
    /\ files' = IF r.save THEN save_to_json(files, r.tray) ELSE files
    /\ outcome' = [call EXCEPT !.exc = r.exc]

\* tray t .mark_used(container, used), container being the one of tray from
\* at well w
MarkUsed ==
    \E t \in TrayNames, from \in TrayNames, used \in BOOLEAN :
      \E w \in WellNames(from) :
        /\ TrayStep(t, mark_used(trays[t], WellAt(from, w), used),
                    [Call("mark_used", t, w) EXCEPT !.from = from, !.flag = used])
        /\ UNCHANGED NotTray

TrayAddContent ==
    \E t \in TrayNames, from \in TrayNames, key \in TrayKeys, value \in TrayValues :
      \E w \in WellNames(from) :
        /\ TrayStep(t, Tray_add_content(trays[t], WellAt(from, w), key, value),
                    [Call("Tray.add_content", t, w) EXCEPT
                        !.from = from, !.key = key, !.num = value])
        /\ UNCHANGED NotTray

TrayAddWeightMeasurement ==
    \E t \in TrayNames, from \in TrayNames, sample_name \in TraySamples, weight \in TrayValues :
      \E w \in WellNames(from) :
        /\ TrayStep(t, Tray_add_weight_measurement(trays[t], WellAt(from, w),
                                                   sample_name, weight),
                    [Call("Tray.add_weight_measurement", t, w) EXCEPT
                        !.from = from, !.key = sample_name, !.num = weight])
        /\ UNCHANGED NotTray

GetNextAvailable ==
    \E t \in TrayNames :
        /\ outcome' = [Call("get_next_available", t, "") EXCEPT
                          !.ret = get_next_available(trays[t])]
        /\ UNCHANGED <<trays, files>>
        /\ UNCHANGED NotTray

GetItem ==
    \E t \in TrayNames, key \in Keys :
        LET r == Tray___getitem__(trays[t], key)
        IN  /\ outcome' = [Call("__getitem__", t, "") EXCEPT
                              !.key = IF key.kind = "str" THEN key.s ELSE "",
                              !.num = IF key.kind = "int" THEN key.i ELSE 0,
                              !.flag = (key.kind = "int"),
                              !.exc = r.exc, !.ret = r.ret]
            /\ UNCHANGED <<trays, files>>
            /\ UNCHANGED NotTray

\* The wells of tray t that hold a container of one of the classes.
WellsOf(t, classes) == {w \in WellNames(t) : WellAt(t, w).cls \in classes}

\* container.add_content(key, value)
AddContentOf(keys, values) ==
    \E t \in TrayNames, key \in keys, value \in values :
      \E w \in WellsOf(t, ContainerClasses) :
        /\ ContainerStep(t, w, Container_add_content(WellAt(t, w), key, value),
                         [Call("add_content", t, w) EXCEPT !.key = key, !.num = value])
        /\ UNCHANGED NotTray

AddContent == AddContentOf(ContentKeys, Values)

\* container.add_layer_aliquot(layer, volume)
AddLayerAliquotOf(layers, volumes) ==
    \E t \in TrayNames, layer \in layers, volume \in volumes :
      \E w \in WellsOf(t, {"vial_stock"}) :
        /\ ContainerStep(t, w, vial_stock_add_layer_aliquot(WellAt(t, w), layer, volume),
                         [Call("add_layer_aliquot", t, w) EXCEPT !.key = layer, !.num = volume])
        /\ UNCHANGED NotTray

AddLayerAliquot == AddLayerAliquotOf(Layers, Values)

\* container.add_min_volume(value)
AddMinVolume ==
    \E t \in TrayNames, value \in {0 - 1, 1} :
      \E w \in WellsOf(t, ContainerClasses) :
        /\ ContainerStep(t, w, Container_add_min_volume(WellAt(t, w), value),
                         [Call("add_min_volume", t, w) EXCEPT !.num = value])
        /\ UNCHANGED NotTray

\* container.update_lc_instrument_parameters(injection_volume, method,
\* instrument_location)
UpdateLcInstrumentParameters ==
    \E t \in TrayNames :
      \E w \in WellsOf(t, {"vial_stock"}) :
        /\ Len(WellAt(t, w).lc_instrument_parameters.method) < MaxLc
        /\ ContainerStep(t, w,
               vial_stock_update_lc_instrument_parameters(WellAt(t, w), 5, "gradient", "lc1"),
               [Call("update_lc_instrument_parameters", t, w) EXCEPT !.key = "gradient", !.num = 5])
        /\ UNCHANGED NotTray

\* container.add_lc_data_directory(path)
AddLcDataDirectory ==
    \E t \in TrayNames :
      \E w \in WellsOf(t, {"vial_stock"}) :
        /\ Len(WellAt(t, w).lc_data_dir) < MaxLc
        /\ ContainerStep(t, w, vial_stock_add_lc_data_directory(WellAt(t, w), "/data/run"),
                         [Call("add_lc_data_directory", t, w) EXCEPT !.key = "/data/run"])
        /\ UNCHANGED NotTray

\* container.add_lc_peaks(peaks)
AddLcPeaks ==
    \E t \in TrayNames :
      \E w \in WellsOf(t, {"vial_stock"}) :
        /\ Len(WellAt(t, w).lc_peaks) < MaxLc
        /\ ContainerStep(t, w, vial_stock_add_lc_peaks(WellAt(t, w), <<1, 2>>),
                         [Call("add_lc_peaks", t, w) EXCEPT !.num = 2])
        /\ UNCHANGED NotTray

\* container.volume_tracking(volume_ml); an accepted volume goes to the log.
VolumeTracking ==
    \E t \in TrayNames, volume_ml \in Volumes :
      \E w \in WellsOf(t, {"vial_sample"}) :
        LET r == vial_sample_volume_tracking(WellAt(t, w), volume_ml)
        IN  /\ Len(tracked) < MaxTracked
            /\ ContainerStep(t, w, r, [Call("volume_tracking", t, w) EXCEPT !.num = volume_ml])
            /\ tracked' = IF r.exc = "None" THEN Append(tracked, volume_ml) ELSE tracked
            /\ UNCHANGED <<robotVars, weighed, gridVars, utilVars, workflow>>

\* container.add_solvent_info(solvent_name, user_id)
AddSolventInfo ==
    \E t \in TrayNames, solvent_name \in {"water", "ethanol"} :
      \E w \in WellsOf(t, {"vial_sample"}) :
        /\ ContainerStep(t, w, vial_sample_add_solvent_info(WellAt(t, w), solvent_name, "s1"),
                         [Call("add_solvent_info", t, w) EXCEPT !.key = solvent_name])
        /\ UNCHANGED NotTray

\* container.add_weight_measurement(sample_name, weight)
Weigh(t, w, sample_name, weight) ==
    ContainerStep(t, w, BaseContainer_add_weight_measurement(WellAt(t, w), sample_name, weight),
                  [Call("add_weight_measurement", t, w) EXCEPT
                      !.key = sample_name, !.num = weight])

\* A measurement that reached weight_history goes to the log.
AddWeightMeasurement ==
    \E t \in TrayNames, sample_name \in SampleNames, weight \in Weights :
      \E w \in WellsOf(t, BaseContainerClasses) :
        /\ Len(weighed) < MaxWeighed
        /\ Weigh(t, w, sample_name, weight)
        /\ weighed' = IF weight >= 0
                      THEN Append(weighed,
                               [sample_name |-> sample_name, weight |-> weight,
                                exc |-> outcome'.exc])
                      ELSE weighed
        /\ UNCHANGED <<robotVars, tracked, gridVars, utilVars, workflow>>

\* The same call, not followed by the log.
AddEmptyWeight ==
    \E t \in TrayNames, weight \in TrayValues :
      \E w \in WellsOf(t, BaseContainerClasses) :
        /\ Weigh(t, w, "empty", weight)
        /\ UNCHANGED NotTray

\* holder.add_container(container)
HolderAddContainer ==
    \E t \in TrayNames, container \in Objects :
      \E w \in WellsOf(t, {"Holder"}) :
        /\ ContainerStep(t, w, Holder_add_container(WellAt(t, w), container),
                         [Call("add_container", t, w) EXCEPT
                             !.key = container.id, !.flag = container.isBase])
        /\ UNCHANGED NotTray

\* holder.remove_container()
HolderRemoveContainer ==
    \E t \in TrayNames :
      \E w \in WellsOf(t, {"Holder"}) :
        /\ ContainerStep(t, w, Holder_remove_container(WellAt(t, w)),
                         Call("remove_container", t, w))
        /\ UNCHANGED NotTray

---------------------------------------------------------------------------
(* Specifications *)

A1Dict == [kind |-> "dict", l |-> <<100, 200, 50, 0, 180, 0>>]
A1List == [kind |-> "list", v |-> <<7, 9, 11, 1, 2, 3>>]

RobotIdle == rob_loc = None /\ gripper_item = None /\ picks = <<>> /\ sent = 0
\* No wrapped method is being called, there is no ComponentManager, no
\* script and no protocol is running.
UtilsIdle == retry = None /\ manager = None /\ workflow = None /\ protocol = None
NoLogs == tracked = <<>> /\ weighed = <<>>
GridIdle ==
    /\ grid_args = [A1 |-> A1List, rows |-> 0, columns |-> 0, spacing |-> <<0, 0>>]
    /\ grid = None

NoFiles(names) == [t \in names |-> None]

\* One vial_stock tray of two letters (A1, A2, ..., B1, B2, ...) as
\* Handler.make_tray builds it, nothing used yet.
Init ==
    /\ trays = [t \in {"vial_stock"} |->
                   make_tray(A1Dict, StockRows, 2, <<20, 20>>, t)]
    /\ files = NoFiles({"vial_stock"})
    /\ outcome = NoCall
    /\ RobotIdle
    /\ NoLogs
    /\ GridIdle
    /\ UtilsIdle

Next ==
    \/ MarkUsed
    \/ GetNextAvailable
    \/ GetItem

Spec == Init /\ [][Next]_vars

\* Two trays whose wells share the name A1: a vial_stock tray (A1, A2, ...)
\* and a dose_stock tray (A1).
InitTwoTrays ==
    /\ trays = [t \in {"vial_stock", "dose_stock"} |->
                   IF t = "vial_stock"
                   THEN make_tray(A1Dict, StockRows, 1, <<20, 20>>, t)
                   ELSE make_tray(A1List, 1, 1, <<45, 45>>, t)]
    /\ files = NoFiles({"vial_stock", "dose_stock"})
    /\ outcome = NoCall
    /\ RobotIdle
    /\ NoLogs
    /\ GridIdle
    /\ UtilsIdle

NextTwoTrays ==
    \/ MarkUsed
    \/ TrayAddContent
    \/ TrayAddWeightMeasurement

SpecTwoTrays == InitTwoTrays /\ [][NextTwoTrays]_vars

---------------------------------------------------------------------------
(* Claims on Spec: one tray, its used flags and its lookups *)

\* The wells of tray t in the order of the mapping Tray.wells.
WellOrder(t) == DictKeys(trays[t].wells)
UsedAt(t, n) == trays[t].wells[n][2].used

\* C1: Tray.get_next_available returns the first container, in well creation
\* order (A1, A2, ... then B1, ...), whose used flag is False, returns None
\* exactly when every container of the tray is used, and changes no state.
C1_NextAvailable ==
    [][outcome'.op = "get_next_available" =>
        LET t == outcome'.tray
            n == Len(trays[t].wells)
        IN  /\ trays' = trays /\ files' = files
            /\ \A k \in 1..n :
                 WellOrder(t)[k] =
                     WellKey(ascii_uppercase[((k - 1) \div StockRows) + 1],
                             ((k - 1) % StockRows) + 1)
            /\ (outcome'.ret = None) <=> (\A k \in 1..n : UsedAt(t, k))
            /\ outcome'.ret # None =>
                 \E k \in 1..n :
                    /\ WellOrder(t)[k] = Val(outcome'.ret)
                    /\ ~UsedAt(t, k)
                    /\ \A m \in 1..(k - 1) : UsedAt(t, m)]_vars

\* The scan passed the used wells A1 and A2 and returned B1.
C1_Witness ==
    /\ outcome.op = "get_next_available"
    /\ outcome.ret = Some("B1")
    /\ WellAt("vial_stock", "A1").used
    /\ WellAt("vial_stock", "A2").used

\* The container of tray t with unique_id s, if any: its well name.
WithUniqueId(t, s) ==
    {w \in WellNames(t) : WellAt(t, w).unique_id = Some(s)}

---------------------------------------------------------------------------
(* Claims on SpecTwoTrays *)

\* C7: Tray.mark_used, Tray.add_content and Tray.add_weight_measurement,
\* called with a container that is not part of this tray (a container object
\* of another tray), raise ValueError and change no container of this tray.
C7_ForeignContainerRejected ==
    [][(/\ outcome'.op \in {"mark_used", "Tray.add_content", "Tray.add_weight_measurement"}
        /\ outcome'.from # outcome'.tray) =>
            /\ outcome'.exc = "ValueError"
            /\ trays'[outcome'.tray] = trays[outcome'.tray]]_vars

---------------------------------------------------------------------------
(* Specifications of the container methods *)

OneWell(t, A1) == make_tray(A1, 1, 1, <<20, 20>>, t)

\* A vial_stock container (at most 2 ml) and a dose_stock container (1 ml).
InitContent ==
    /\ trays = [t \in {"vial_stock", "dose_stock"} |-> OneWell(t, A1Dict)]
    /\ files = NoFiles({"vial_stock", "dose_stock"})
    /\ outcome = NoCall
    /\ RobotIdle
    /\ NoLogs
    /\ GridIdle
    /\ UtilsIdle

NextContent ==
    \/ AddContent
    \/ AddLayerAliquot

SpecContent == InitContent /\ [][NextContent]_vars

\* One vial_sample container (at most 16 ml).
InitSample ==
    /\ trays = [t \in {"vial_sample"} |-> OneWell(t, A1List)]
    /\ files = NoFiles({"vial_sample"})
    /\ outcome = NoCall
    /\ RobotIdle
    /\ NoLogs
    /\ GridIdle
    /\ UtilsIdle

NextVolume ==
    \/ VolumeTracking
    \/ AddSolventInfo

SpecVolume == InitSample /\ [][NextVolume]_vars

NextWeight == AddWeightMeasurement

SpecWeight == InitSample /\ [][NextWeight]_vars

\* One vial_stock container and everything that changes what is recorded
\* of it.
InitPersist ==
    /\ trays = [t \in {"vial_stock"} |-> OneWell(t, A1Dict)]
    /\ files = NoFiles({"vial_stock"})
    /\ outcome = NoCall
    /\ RobotIdle
    /\ NoLogs
    /\ GridIdle
    /\ UtilsIdle

PersistAddContent == AddContentOf({"k1"}, {0, 2})
PersistAddLayerAliquot == AddLayerAliquotOf({"top"}, {1})

NextPersist ==
    \/ MarkUsed
    \/ AddEmptyWeight
    \/ PersistAddContent
    \/ PersistAddLayerAliquot
    \/ UpdateLcInstrumentParameters
    \/ AddLcDataDirectory
    \/ AddLcPeaks
    \/ AddMinVolume

SpecPersist == InitPersist /\ [][NextPersist]_vars

\* A tray of holders, as Tray.from_container_class(Holder, ...) builds it.
InitHolder ==
    /\ trays = [t \in {"holder"} |->
                   from_container_class("Holder", t,
                       create_grid(A1List, HolderRows, 1, <<20, 20>>), <<0, 0>>)]
    /\ files = NoFiles({"holder"})
    /\ outcome = NoCall
    /\ RobotIdle
    /\ NoLogs
    /\ GridIdle
    /\ UtilsIdle

NextHolder ==
    \/ HolderAddContainer
    \/ HolderRemoveContainer
    \/ MarkUsed

SpecHolder == InitHolder /\ [][NextHolder]_vars

---------------------------------------------------------------------------
(* Claims on the container methods *)

AllContainers(classes) ==
    {WellAt(t, w) : <<t, w>> \in {<<t, w>> \in TrayNames \X {"A1"} : w \in WellsOf(t, classes)}}

C5_CumulativeVolume ==
    \A c \in AllContainers({"vial_sample"}) :
        /\ c.total_volume = SumSeq(tracked)
        /\ outcome.op = "volume_tracking" =>
             LET v == outcome.num
                 cumulative == IF outcome.exc = "None" THEN SumSeq(tracked) - v
                               ELSE SumSeq(tracked)
             IN  /\ outcome.exc \in {"None", "ValueError"}
                 /\ (outcome.exc = "ValueError") <=>
                        (v < 0 \/ v > c.max_volume_ml - cumulative)

\* The sample names of the written measurements, in order.
WeighedNames == [i \in 1..Len(weighed) |-> weighed[i].sample_name]
DistinctFrom(names, first) ==
    \A i, j \in first..Len(names) : i # j => names[i] # names[j]

WeightBalance(c) ==
    /\ c.empty_weight_mg # None
    /\ Val(c.empty_weight_mg) + SumSeq(DictValues(c.measured_weight))
           = weighed[Len(weighed)].weight

\* C6 as amended: add_weight_measurement records, for each sample whose name
\* is not 'empty' in any letter case, the new weight minus the previously
\* recorded weight; so for a container whose measurements are an 'empty'
\* measurement followed by any sequence of measurements with distinct sample
\* names, none of them 'empty' in any letter case, empty_weight_mg plus the
\* sum of the measured_weight values equals the last recorded weight.
C6_WeightBalance ==
    /\ [](\A c \in AllContainers({"vial_sample"}) :
            (/\ Len(weighed) >= 1
             /\ weighed[1].sample_name = "empty"
             /\ \A i \in 2..Len(weighed) : Lower(weighed[i].sample_name) # "empty"
             /\ DistinctFrom(WeighedNames, 2)) => WeightBalance(c))
    /\ [][(/\ outcome'.op = "add_weight_measurement"
           /\ outcome'.exc = "None"
           /\ Lower(outcome'.key) # "empty"
           /\ Len(weighed') = Len(weighed) + 1) =>
             /\ Len(weighed) >= 1
             /\ DictGet(DictGet(trays'[outcome'.tray].wells, outcome'.well).measured_weight,
                        outcome'.key)
                    = outcome'.num - weighed[Len(weighed)].weight]_vars

\* 'empty' at 1 mg, then 'a' at 0 mg and 'b' at 1 mg were measured.
C6_Witness ==
    /\ Len(weighed) = 3
    /\ WeighedNames = <<"empty", "a", "b">>
    /\ weighed[1].weight = 1 /\ weighed[2].weight = 0 /\ weighed[3].weight = 1
    /\ \A c \in AllContainers({"vial_sample"}) :
          c.measured_weight = << <<"a", 0 - 1>>, <<"b", 1>> >>

\* C6 as stated: after an 'empty' measurement followed by any sequence of
\* measurements with distinct sample names, empty_weight_mg plus the sum of
\* the measured_weight values equals the last recorded weight.
C6_AsStated ==
    \A c \in AllContainers({"vial_sample"}) :
        (/\ Len(weighed) >= 1
         /\ weighed[1].sample_name = "empty"
         /\ DistinctFrom(WeighedNames, 1)) => WeightBalance(c)

---------------------------------------------------------------------------
(* Claims on the write-through snapshot and on holders *)

\* C3: for a container attached to a tray, after every operation that changes
\* the container's recorded state the tray's JSON file holds the summary of
\* the tray's current in-memory state.
C3_WriteThrough ==
    [][\A t \in TrayNames :
          trays'[t] # trays[t] => files'[t] = Some(get_summary(trays'[t]))]_vars

\* C8: a Holder holds at most one container, and after any sequence of
\* Holder.add_container, Holder.remove_container and Tray.mark_used on it its
\* used flag is True exactly when it holds a container; add_container on an
\* occupied holder and remove_container on an empty holder raise ValueError
\* and leave the holder unchanged.
C8_HolderUsedIffOccupied ==
    [][/\ \A t \in TrayNames : \A w \in WellsOf(t, {"Holder"}) :
             LET h == DictGet(trays'[t].wells, w)
             IN  /\ Len(h.container) <= 1
                 /\ h.used <=> (h.container # None)
       /\ outcome'.op \in {"add_container", "remove_container"} =>
             LET h == WellAt(outcome'.tray, outcome'.well)
                 refused == IF outcome'.op = "add_container" THEN h.container # None
                            ELSE h.container = None
             IN  refused =>
                    /\ outcome'.exc = "ValueError"
                    /\ DictGet(trays'[outcome'.tray].wells, outcome'.well) = h]_vars

---------------------------------------------------------------------------
(* robot/robot_control_URArm.py: URController *)

RobotCall(op, loc) == [NoCall EXCEPT !.op = op, !.key = loc]
StrKey(k) == [kind |-> "str", s |-> k]

\* _initialize_trays
URController_trays ==
    [t \in {"vial_stock", "dose_stock", "dose_stock_back", "vial_sample"} |->
        CASE t = "vial_stock" -> make_tray(A1Dict, 6, 4, <<20, 20>>, t)
          [] t = "dose_stock" -> make_tray(A1Dict, 5, 1, <<45, 45>>, t)
          [] t = "dose_stock_back" -> make_tray(A1Dict, 5, 1, <<45, 45>>, t)
          [] t = "vial_sample" -> make_tray(A1Dict, 4, 6, <<20, 20>>, t)]

\* home(): movej("safe_rack"), one motion command.
URController_home ==
    /\ rob_loc' = Some("safe_rack")
    /\ outcome' = RobotCall("home", "")
    /\ sent' = 1
    /\ UNCHANGED <<gripper_item, picks>>

\* vial_2_balance without its test of _gripper_item.
URController_vial_2_balance_any_gripper(vial_loc) ==
    LET call == RobotCall("vial_2_balance", vial_loc)
        empty_vial == Tray___getitem__(trays["vial_stock"], StrKey(vial_loc))
    IN  IF rob_loc # Some("safe_rack")
        THEN /\ outcome' = [call EXCEPT !.exc = "ValueError"]
             /\ sent' = 0
             /\ UNCHANGED <<rob_loc, gripper_item, picks>>
        ELSE IF empty_vial.exc # "None"
        THEN /\ outcome' = [call EXCEPT !.exc = empty_vial.exc]
             /\ rob_loc' = Some("vial_stock_prep")
             /\ sent' = 2
             /\ UNCHANGED <<gripper_item, picks>>
        ELSE /\ outcome' = call
             /\ picks' = Append(picks, <<"vial_stock", Val(empty_vial.ret)>>)
             /\ gripper_item' = None
             /\ rob_loc' = Some("safe_rack")
             /\ sent' = 17

\* vial_2_balance(vial_loc): the gripper closes on the vial of well vial_loc
\* of the vial_stock tray, carries it to the balance and opens.  The lookup
\* of the well comes after two commands, the routine sends 17 in all.
URController_vial_2_balance(vial_loc) ==
    LET call == RobotCall("vial_2_balance", vial_loc)
        empty_vial == Tray___getitem__(trays["vial_stock"], StrKey(vial_loc))
    IN  IF rob_loc # Some("safe_rack") \/ gripper_item # None
        THEN /\ outcome' = [call EXCEPT !.exc = "ValueError"]
             /\ sent' = 0
             /\ UNCHANGED <<rob_loc, gripper_item, picks>>
        ELSE IF empty_vial.exc # "None"
        THEN /\ outcome' = [call EXCEPT !.exc = empty_vial.exc]
             /\ rob_loc' = Some("vial_stock_prep")
             /\ sent' = 2
             /\ UNCHANGED <<gripper_item, picks>>
        ELSE /\ outcome' = call
             /\ picks' = Append(picks, <<"vial_stock", Val(empty_vial.ret)>>)
             /\ gripper_item' = None
             /\ rob_loc' = Some("safe_rack")
             /\ sent' = 17

\* dose_2_balance(dose_loc): the gripper closes on the dosing head of well
\* dose_loc of the dose_stock tray and carries it to the balance; the
\* routine sets _gripper_item to "dose" and never clears it.
URController_dose_2_balance(dose_loc) ==
    LET call == RobotCall("dose_2_balance", dose_loc)
        dose == Tray___getitem__(trays["dose_stock"], StrKey(dose_loc))
    IN  IF rob_loc # Some("safe_rack")
        THEN /\ outcome' = [call EXCEPT !.exc = "ValueError"]
             /\ sent' = 0
             /\ UNCHANGED <<rob_loc, gripper_item, picks>>
        ELSE IF dose.exc # "None"
        THEN /\ outcome' = [call EXCEPT !.exc = dose.exc]
             /\ rob_loc' = Some("dos_rack_prep")
             /\ sent' = 2
             /\ UNCHANGED <<gripper_item, picks>>
        ELSE /\ outcome' = call
             /\ picks' = Append(picks, <<"dose_stock", Val(dose.ret)>>)
             /\ gripper_item' = Some("dose")
             /\ rob_loc' = Some("safe_rack")
             /\ sent' = 17

\* vial_2_OT(*args): the routine takes no argument besides self, so a call
\* with one raises TypeError before its body runs.  The body carries the
\* vial from the balance to the deck in 19 commands; it never assigns
\* _gripper_item.
URController_vial_2_OT(args) ==
    LET call == [RobotCall("vial_2_OT", IF args = <<>> THEN "" ELSE args[1])
                     EXCEPT !.num = Len(args)]
    IN  IF Len(args) # 0
        THEN /\ outcome' = [call EXCEPT !.exc = "TypeError"]
             /\ sent' = 0
             /\ UNCHANGED <<rob_loc, gripper_item, picks>>
        ELSE IF rob_loc # Some("safe_rack") \/ gripper_item # None
        THEN /\ outcome' = [call EXCEPT !.exc = "ValueError"]
             /\ sent' = 0
             /\ UNCHANGED <<rob_loc, gripper_item, picks>>
        ELSE /\ outcome' = call
             /\ rob_loc' = Some("safe_rack")
             /\ sent' = 19
             /\ UNCHANGED <<gripper_item, picks>>

Home ==
    /\ URController_home
    /\ UNCHANGED <<trays, workflow>>
    /\ UNCHANGED NotRobot

Vial2Balance ==
    \E vial_loc \in RobotLocs :
        /\ Len(picks) < MaxPicks
        /\ URController_vial_2_balance(vial_loc)
        /\ UNCHANGED <<trays, workflow>>
        /\ UNCHANGED NotRobot

Dose2Balance ==
    \E dose_loc \in RobotLocs :
        /\ Len(picks) < MaxPicks
        /\ URController_dose_2_balance(dose_loc)
        /\ UNCHANGED <<trays, workflow>>
        /\ UNCHANGED NotRobot

Vial2OT ==
    \E args \in {<<>>, <<"A1">>} :
        /\ URController_vial_2_OT(args)
        /\ UNCHANGED <<trays, workflow>>
        /\ UNCHANGED NotRobot

\* URController.__init__
InitRobot ==
    /\ trays = URController_trays
    /\ files = NoFiles(DOMAIN URController_trays)
    /\ outcome = NoCall
    /\ gripper_item = None
    /\ rob_loc = None
    /\ picks = <<>>
    /\ sent = 0
    /\ NoLogs
    /\ GridIdle
    /\ UtilsIdle

NextRobot ==
    \/ Home
    \/ Vial2Balance
    \/ Dose2Balance
    \/ Vial2OT

SpecRobot == InitRobot /\ [][NextRobot]_vars

\* C2: in any sequence of robot-control pick operations (vial_2_balance,
\* dose_2_balance) on a tray no container is used twice: once a well's
\* container has been picked it is marked used and a later pick does not
\* take the same well again.
C2_NoDoubleUse ==
    \A i \in 1..Len(picks) :
        /\ WellAt(picks[i][1], picks[i][2]).used
        /\ \A j \in 1..Len(picks) : i # j => picks[i] # picks[j]

\* C14: a transfer routine (vial_2_balance, dose_2_balance, vial_2_OT, called
\* with its own parameters) that starts with _rob_loc other than 'safe_rack'
\* or, for vial_2_balance and vial_2_OT, with the gripper recorded as holding
\* an item, raises ValueError before any gripper or motion command is sent
\* and leaves _rob_loc and _gripper_item unchanged.
C14_SafeRackOnly ==
    [][(/\ outcome'.op \in {"vial_2_balance", "dose_2_balance", "vial_2_OT"}
        /\ outcome'.num = 0
        /\ \/ rob_loc # Some("safe_rack")
           \/ /\ outcome'.op \in {"vial_2_balance", "vial_2_OT"}
              /\ gripper_item # None) =>
          /\ outcome'.exc = "ValueError"
          /\ sent' = 0
          /\ rob_loc' = rob_loc
          /\ gripper_item' = gripper_item]_vars

\* vial_2_OT was refused at 'safe_rack' because the gripper is recorded as
\* holding the dosing head.
C14_Witness ==
    /\ outcome.op = "vial_2_OT"
    /\ outcome.num = 0
    /\ outcome.exc = "ValueError"
    /\ sent = 0
    /\ rob_loc = Some("safe_rack")
    /\ gripper_item = Some("dose")

---------------------------------------------------------------------------
(* workflow/rob_dos_workflow.py: the script *)

\* letters of rows and digits of cols the script may list
MaxListed == 2

\* the sequences over S of length at most n
SeqsUpTo(S, n) == UNION {[1..k -> S] : k \in 0..n}

\* [f"{row}{col}" for row in rows for col in cols]
RECURSIVE WellLocationsOfRow(_, _, _)
WellLocationsOfRow(row, cols, n) ==
    IF n > Len(cols) THEN <<>>
    ELSE <<row \o cols[n]>> \o WellLocationsOfRow(row, cols, n + 1)

RECURSIVE WellLocations(_, _, _)
WellLocations(rows, cols, n) ==
    IF n > Len(rows) THEN <<>>
    ELSE WellLocationsOfRow(rows[n], cols, 1) \o WellLocations(rows, cols, n + 1)

\* The script before its first statement on the robot: rob = URController()
\* has run, rows and cols are the lists the script writes out (here: any
\* short lists of the letters and digits its comments name).
InitWorkflow ==
    /\ trays = URController_trays
    /\ files = NoFiles(DOMAIN URController_trays)
    /\ outcome = NoCall
    /\ RobotIdle
    /\ NoLogs
    /\ GridIdle
    /\ retry = None /\ manager = None /\ protocol = None
    /\ \E rows \in SeqsUpTo({"A", "B"}, MaxListed),
          cols \in SeqsUpTo({"1", "2", "3", "4"}, MaxListed) :
          workflow = Some([pc |-> "home",
                           well_locations |-> WellLocations(rows, cols, 1),
                           i |-> 1])

\* Where the script goes after a call on the robot: an exception no
\* statement of the script catches ends it.
AfterCall(w, exc, pc) == IF exc = "None" THEN [w EXCEPT !.pc = pc] ELSE [w EXCEPT !.pc = "raised"]

\* The head of "for well in well_locations".
ForWell(w) ==
    IF w.i <= Len(w.well_locations) THEN [w EXCEPT !.pc = "vial_2_balance"]
    ELSE [w EXCEPT !.pc = "done"]

\* The script's next call on the robot: rob.home(), rob.dose_2_balance('A1'),
\* then for each well rob.vial_2_balance(well) and rob.vial_2_OT(well).  The
\* calls on the balance between them are not part of the model.
RobDosWorkflow ==
    /\ workflow # None
    /\ LET w == Val(workflow)
       IN  CASE w.pc = "home" ->
                  /\ URController_home
                  /\ workflow' = Some(AfterCall(w, outcome'.exc, "dose_2_balance"))
             [] w.pc = "dose_2_balance" ->
                  /\ URController_dose_2_balance("A1")
                  /\ workflow' = Some(IF outcome'.exc = "None" THEN ForWell(w)
                                      ELSE AfterCall(w, outcome'.exc, ""))
             [] w.pc = "vial_2_balance" ->
                  /\ URController_vial_2_balance(w.well_locations[w.i])
                  /\ workflow' = Some(AfterCall(w, outcome'.exc, "vial_2_OT"))
             [] w.pc = "vial_2_OT" ->
                  /\ URController_vial_2_OT(<<w.well_locations[w.i]>>)
                  /\ workflow' = Some(IF outcome'.exc = "None"
                                      THEN ForWell([w EXCEPT !.i = w.i + 1])
                                      ELSE AfterCall(w, outcome'.exc, ""))
             [] OTHER -> FALSE
    /\ UNCHANGED trays
    /\ UNCHANGED NotRobot

NextWorkflow == RobDosWorkflow

SpecWorkflow == InitWorkflow /\ [][NextWorkflow]_vars

\* C15: the scripted sequence of rob_dos_workflow (home, dose_2_balance once,
\* then for each well vial_2_balance and vial_2_OT) runs with every routine's
\* start precondition satisfied: no routine raises its precondition
\* ValueError, and each routine ends with _rob_loc = 'safe_rack'.
C15_ScriptRuns ==
    (workflow # None /\ Val(workflow).pc # "home") =>
        /\ outcome.exc # "ValueError"
        /\ rob_loc = Some("safe_rack")

---------------------------------------------------------------------------
(* Handler.create_grid on its own *)

GridInputs ==
    [A1 : {A1Dict, A1List}, rows : 0..MaxRows, columns : 0..MaxColumns,
     spacing : {<<20, 20>>, <<45, 45>>, <<9, 18>>}]

InitGrid ==
    /\ trays = <<>>
    /\ files = <<>>
    /\ outcome = NoCall
    /\ RobotIdle
    /\ NoLogs
    /\ UtilsIdle
    /\ grid_args \in GridInputs
    /\ grid = None

CreateGrid ==
    /\ grid = None
    /\ grid' = Some(create_grid(grid_args.A1, grid_args.rows, grid_args.columns,
                                grid_args.spacing))
    /\ UNCHANGED grid_args
    /\ UNCHANGED NotGrid

NextGrid == CreateGrid

SpecGrid == InitGrid /\ [][NextGrid]_vars

\* C10: create_grid(A1, rows, columns, spacing) returns exactly rows x columns
\* wells with distinct names; the well named by the i-th letter (i from 0)
\* and the number c (from 1) is at A1's position shifted by
\* (-spacing_x * i, -spacing_y * (c - 1), 0), with A1's orientation unchanged.
C10_GridShape ==
    grid # None =>
        LET g == Val(grid)
            l == IF grid_args.A1.kind = "dict" THEN grid_args.A1.l ELSE grid_args.A1.v
            sx == grid_args.spacing[1]
            sy == grid_args.spacing[2]
        IN  /\ Len(g) = grid_args.rows * grid_args.columns
            /\ \A m, n \in 1..Len(g) : m # n => g[m][1] # g[n][1]
            /\ \A i \in 0..(grid_args.columns - 1), c \in 1..grid_args.rows :
                  LET key == WellKey(ascii_uppercase[i + 1], c)
                  IN  /\ DictHas(g, key)
                      /\ DictGet(g, key).position =
                             <<l[1] - sx * i, l[2] - sy * (c - 1), l[3]>>
                      /\ DictGet(g, key).orientation = <<l[4], l[5], l[6]>>

---------------------------------------------------------------------------
(* utils/error_handling.py: socket_timeout_retry and balance_error_retry *)

\* max_retries offered to the decorators: 0 .. MaxRetries
MaxRetries == 3
\* retry_delay offered to the decorators, in seconds: 0 .. MaxDelay
MaxDelay == 2

\* An exception func raises is the name of its class; Bases(e) are that
\* class and the classes it inherits from, the classes an except clause may
\* name to catch it (object and BaseException left out).
Bases(e) ==
    CASE e = "socket.timeout" -> {"socket.timeout", "OSError", "Exception"}
      [] e = "asyncio.TimeoutError" -> {"asyncio.TimeoutError", "Exception"}
      [] e = "TimeoutError" -> {"TimeoutError", "OSError", "Exception"}
      [] e = "ConnectionResetError" ->
             {"ConnectionResetError", "ConnectionError", "OSError", "Exception"}
      [] e = "FileNotFoundError" -> {"FileNotFoundError", "OSError", "Exception"}
      [] e = "ValueError" -> {"ValueError", "Exception"}
      [] e = "RuntimeError" -> {"RuntimeError", "Exception"}
      [] e = "KeyError" -> {"KeyError", "LookupError", "Exception"}
      [] e = "KeyboardInterrupt" -> {"KeyboardInterrupt"}
      [] OTHER -> {}

\* except (classes) catches e
IsInstance(e, classes) == Bases(e) \cap classes # {}

\* except (socket.timeout, asyncio.TimeoutError, TimeoutError)
Timeouts == {"socket.timeout", "asyncio.TimeoutError", "TimeoutError"}

\* acceptable_errors when the argument is None
DefaultAcceptableErrors ==
    {"ValueError", "ConnectionError", "TimeoutError", "OSError", "RuntimeError"}

\* What one call of the wrapped method does: it returns ("ok") or raises.
SocketOutcomes ==
    {"ok", "socket.timeout", "asyncio.TimeoutError", "TimeoutError", "ValueError",
     "KeyboardInterrupt"}
BalanceOutcomes ==
    {"ok", "ValueError", "ConnectionResetError", "FileNotFoundError", "RuntimeError",
     "KeyError", "KeyboardInterrupt"}

\* The acceptable_errors arguments offered: None (the default list), an
\* empty list and two lists of the caller's.
AcceptableErrorsArgs ==
    {None, Some({}), Some({"KeyError"}), Some({"ValueError", "ConnectionError"})}

\* b to the power e
RECURSIVE Pow(_, _)
Pow(b, e) == IF e = 0 THEN 1 ELSE b * Pow(b, e - 1)

\* A call of a wrapped method as wrapper starts it.  A delay is the fraction
\* <<numerator, denominator>> of seconds.
RetryCall(decorator, max_retries, retry_delay, self_max, self_delay, acceptable_errors) ==
    [decorator |-> decorator,
     max_retries |-> max_retries,
     retry_delay |-> retry_delay,
     self_max |-> self_max,
     self_delay |-> self_delay,
     acceptable_errors |-> IF acceptable_errors = None THEN DefaultAcceptableErrors
                           ELSE Val(acceptable_errors),
     \* getattr(self, '_socket_retry_max_retries', max_retries)
     actual_max_retries |-> IF self_max # None THEN Val(self_max) ELSE max_retries,
     \* getattr(self, '_socket_retry_delay', retry_delay)
     actual_retry_delay |-> IF self_delay # None THEN Val(self_delay) ELSE retry_delay,
     current_delay |-> <<IF self_delay # None THEN Val(self_delay) ELSE retry_delay, 1>>,
     attempt |-> 0,
     phase |-> "call",
     calls |-> <<>>,
     sleeps |-> <<>>,
     ret |-> None,
     exc |-> "None"]

\* One iteration of socket_timeout_retry's loop in which func ends as o.  The
\* iteration that retries every exception, not only the timeouts:
socket_timeout_retry_attempt_any_exception(r, o) ==
    LET r1 == [r EXCEPT !.calls = Append(@, o)]
    IN  IF o = "ok" THEN [r1 EXCEPT !.phase = "returned", !.ret = Some("result")]
        ELSE IF IsInstance(o, {"Exception"})
        THEN IF r.attempt < r.actual_max_retries - 1
             THEN [r1 EXCEPT !.phase = "sleep"]
             ELSE [r1 EXCEPT !.phase = "raised", !.exc = o]
        ELSE [r1 EXCEPT !.phase = "raised", !.exc = o]

\* One iteration of socket_timeout_retry's loop in which func ends as o.
socket_timeout_retry_attempt(r, o) ==
    LET r1 == [r EXCEPT !.calls = Append(@, o)]
    IN  IF o = "ok" THEN [r1 EXCEPT !.phase = "returned", !.ret = Some("result")]
        ELSE IF IsInstance(o, Timeouts)
        THEN IF r.attempt < r.actual_max_retries - 1
             THEN [r1 EXCEPT !.phase = "sleep"]
             ELSE [r1 EXCEPT !.phase = "raised", !.exc = o]
        ELSE [r1 EXCEPT !.phase = "raised", !.exc = o]

\* The wait of socket_timeout_retry with the delay doubled each time.
socket_timeout_retry_sleep_doubling(r) ==
    [r EXCEPT !.sleeps = Append(@, r.current_delay),
              !.current_delay = <<r.current_delay[1] * 2, r.current_delay[2]>>,
              !.attempt = @ + 1,
              !.phase = "call"]

\* time.sleep(current_delay); current_delay *= 1.5; the next iteration
socket_timeout_retry_sleep(r) ==
    [r EXCEPT !.sleeps = Append(@, r.current_delay),
              !.current_delay = <<r.current_delay[1] * 3, r.current_delay[2] * 2>>,
              !.attempt = @ + 1,
              !.phase = "call"]

\* One iteration of balance_error_retry's loop that retries every exception.
balance_error_retry_attempt_any_exception(r, o) ==
    LET r1 == [r EXCEPT !.calls = Append(@, o)]
    IN  IF o = "ok" THEN [r1 EXCEPT !.phase = "returned", !.ret = Some("result")]
        ELSE IF IsInstance(o, {"Exception"})
        THEN IF r.attempt < r.max_retries - 1
             THEN [r1 EXCEPT !.phase = "sleep"]
             ELSE [r1 EXCEPT !.phase = "raised", !.exc = o]
        ELSE [r1 EXCEPT !.phase = "raised", !.exc = o]

\* One iteration of balance_error_retry's loop in which func ends as o.
balance_error_retry_attempt(r, o) ==
    LET r1 == [r EXCEPT !.calls = Append(@, o)]
    IN  IF o = "ok" THEN [r1 EXCEPT !.phase = "returned", !.ret = Some("result")]
        ELSE IF IsInstance(o, r.acceptable_errors)
        THEN IF r.attempt < r.max_retries - 1
             THEN [r1 EXCEPT !.phase = "sleep"]
             ELSE [r1 EXCEPT !.phase = "raised", !.exc = o]
        ELSE [r1 EXCEPT !.phase = "raised", !.exc = o]

\* time.sleep(current_delay); current_delay *= 1.5; the next iteration
balance_error_retry_sleep(r) ==
    [r EXCEPT !.sleeps = Append(@, r.current_delay),
              !.current_delay = <<r.current_delay[1] * 3, r.current_delay[2] * 2>>,
              !.attempt = @ + 1,
              !.phase = "call"]

\* What the retry actions leave alone.
NotRetry == <<trayVars, logVars, robotVars, gridVars, manager, workflow, protocol>>

\* for attempt in range(actual_max_retries): try: return func(...)
SocketAttempt ==
    /\ retry # None
    /\ Val(retry).decorator = "socket_timeout_retry"
    /\ Val(retry).phase = "call"
    /\ Val(retry).attempt < Val(retry).actual_max_retries
    /\ \E o \in SocketOutcomes : retry' = Some(socket_timeout_retry_attempt(Val(retry), o))
    /\ UNCHANGED NotRetry

SocketSleep ==
    /\ retry # None
    /\ Val(retry).decorator = "socket_timeout_retry"
    /\ Val(retry).phase = "sleep"
    /\ retry' = Some(socket_timeout_retry_sleep(Val(retry)))
    /\ UNCHANGED NotRetry

\* range(actual_max_retries) is empty: the wrapper ends without a call of
\* func and returns None.
SocketNoAttempt ==
    /\ retry # None
    /\ Val(retry).decorator = "socket_timeout_retry"
    /\ Val(retry).phase = "call"
    /\ Val(retry).attempt >= Val(retry).actual_max_retries
    /\ retry' = Some([Val(retry) EXCEPT !.phase = "returned"])
    /\ UNCHANGED NotRetry

\* for attempt in range(max_retries): try: result = func(...); return result
BalanceAttempt ==
    /\ retry # None
    /\ Val(retry).decorator = "balance_error_retry"
    /\ Val(retry).phase = "call"
    /\ Val(retry).attempt < Val(retry).max_retries
    /\ \E o \in BalanceOutcomes : retry' = Some(balance_error_retry_attempt(Val(retry), o))
    /\ UNCHANGED NotRetry

BalanceSleep ==
    /\ retry # None
    /\ Val(retry).decorator = "balance_error_retry"
    /\ Val(retry).phase = "sleep"
    /\ retry' = Some(balance_error_retry_sleep(Val(retry)))
    /\ UNCHANGED NotRetry

\* range(max_retries) is empty.
BalanceNoAttempt ==
    /\ retry # None
    /\ Val(retry).decorator = "balance_error_retry"
    /\ Val(retry).phase = "call"
    /\ Val(retry).attempt >= Val(retry).max_retries
    /\ retry' = Some([Val(retry) EXCEPT !.phase = "returned"])
    /\ UNCHANGED NotRetry

\* A wrapped method is called: one decorated with socket_timeout_retry, on
\* an object that has or has not the attributes _socket_retry_max_retries
\* and _socket_retry_delay, or one decorated with balance_error_retry.
InitRetry ==
    /\ trays = <<>>
    /\ files = <<>>
    /\ outcome = NoCall
    /\ RobotIdle
    /\ NoLogs
    /\ GridIdle
    /\ manager = None /\ workflow = None /\ protocol = None
    /\ \E max_retries \in 0..MaxRetries, retry_delay \in 0..MaxDelay :
          \/ \E self_max \in {None} \cup {Some(n) : n \in 0..MaxRetries},
                self_delay \in {None} \cup {Some(n) : n \in 0..MaxDelay} :
                retry = Some(RetryCall("socket_timeout_retry", max_retries, retry_delay,
                                       self_max, self_delay, None))
          \/ \E acceptable_errors \in AcceptableErrorsArgs :
                retry = Some(RetryCall("balance_error_retry", max_retries, retry_delay,
                                       None, None, acceptable_errors))

NextRetry ==
    \/ SocketAttempt
    \/ SocketSleep
    \/ SocketNoAttempt
    \/ BalanceAttempt
    \/ BalanceSleep
    \/ BalanceNoAttempt

SpecRetry == InitRetry /\ [][NextRetry]_vars

\* What the claims on a retried call say, for a call r whose loop allows N
\* calls and retries the exceptions of the classes in caught: func is
\* called again only after it raised one of caught; it is called at most N
\* times; a successful result is returned at once; an exception of caught
\* is re-raised exactly when the N-th call raised it; any other exception
\* is re-raised at once.
RetryContract(r, N, caught) ==
    LET n == Len(r.calls)
    IN  /\ \A k \in 1..(n - 1) : IsInstance(r.calls[k], caught)
        /\ n = 0 \/ n <= N
        /\ (n >= 1 /\ r.calls[n] = "ok") =>
              r.phase = "returned" /\ r.ret = Some("result")
        /\ (n >= 1 /\ n = N /\ IsInstance(r.calls[n], caught)) =>
              r.phase = "raised" /\ r.exc = r.calls[n]
        /\ (r.phase = "raised" /\ IsInstance(r.exc, caught)) => n = N
        /\ (n >= 1 /\ r.calls[n] # "ok" /\ ~IsInstance(r.calls[n], caught)) =>
              r.phase = "raised" /\ r.exc = r.calls[n]

C12_BalanceRetry ==
    (retry # None /\ Val(retry).decorator = "balance_error_retry") =>
        RetryContract(Val(retry), Val(retry).max_retries, Val(retry).acceptable_errors)

\* With the default list a FileNotFoundError (an OSError) was retried and
\* the KeyError of the second call was re-raised at once.
C12_Witness ==
    /\ retry # None
    /\ Val(retry).decorator = "balance_error_retry"
    /\ Val(retry).acceptable_errors = DefaultAcceptableErrors
    /\ Val(retry).max_retries = 3
    /\ Val(retry).calls = <<"FileNotFoundError", "KeyError">>
    /\ Val(retry).phase = "raised"
    /\ Val(retry).exc = "KeyError"

\* What C13 says of a call r whose first wait is d seconds: the k-th wait is
\* d x 1.5^(k-1); a wait comes after a failed call and before another call.
Backoff(r, d) ==
    LET n == Len(r.calls)
        N == IF r.decorator = "socket_timeout_retry" THEN r.actual_max_retries
             ELSE r.max_retries
    IN  /\ \A k \in 1..Len(r.sleeps) :
              r.sleeps[k] = <<d * Pow(3, k - 1), Pow(2, k - 1)>>
        /\ r.phase = "call" => Len(r.sleeps) = n
        /\ r.phase = "sleep" => Len(r.sleeps) = n - 1 /\ n < N
        /\ r.phase \in {"returned", "raised"} =>
              Len(r.sleeps) = (IF n = 0 THEN 0 ELSE n - 1)

---------------------------------------------------------------------------
(* utils/component_manager.py: ComponentManager *)

\* components one call of reg_all_comps is given: 0 .. MaxComponents
MaxComponents == 1
\* usage_count a component's usage file may reach
MaxUsage == 1

\* cleanup_methods = ['disconnect', 'close', 'stop', 'cleanup', 'shutdown']
cleanup_methods == <<"disconnect", "close", "stop", "cleanup", "shutdown">>

\* A component instance: its class name, which instance of the class it is,
\* and for each name of cleanup_methods what the instance has under it:
\* nothing ("absent"), an attribute that is not callable ("attribute"), or a
\* method that returns ("returns") or raises the exception named.
Component(class_name, id, has) ==
    [class_name |-> class_name, id |-> id,
     has |-> [m \in {cleanup_methods[k] : k \in 1..Len(cleanup_methods)} |->
                 IF m \in DOMAIN has THEN has[m] ELSE "absent"]]

\* The instances offered for registration: two of one class, the first
\* with two cleanup methods and the second with none, one whose first
\* cleanup attribute is not callable and whose first method raises, and one
\* whose method ends the interpreter.
Components ==
    {Component("MTXPRBalance", 1, [disconnect |-> "returns", close |-> "returns"]),
     Component("MTXPRBalance", 2, <<>>),
     Component("URController", 1,
               [disconnect |-> "attribute", close |-> "RuntimeError", stop |-> "returns"]),
     Component("Camera", 1, [cleanup |-> "SystemExit", shutdown |-> "returns"])}

\* component_name.lower(), for the class names above
LowerName(name) ==
    CASE name = "MTXPRBalance" -> "mtxprbalance"
      [] name = "URController" -> "urcontroller"
      [] name = "Camera" -> "camera"
      [] OTHER -> name

\* ComponentManager.__init__, with the usage files that data_dir holds.
\* A file is named by the lower-case component name; datetime.now() is
\* the action that stamped it.  op, components, visited, cleaned and exc
\* record the last call on the manager: which it was, the arguments of
\* reg_all_comps, the components cleanup_all entered cleanup_component
\* for, the cleanup methods it called, and the exception it let out.
ComponentManager(usage) ==
    [registered_components |-> <<>>,
     component_loggers |-> <<>>,
     usage |-> usage,
     is_shutting_down |-> FALSE,
     op |-> "__init__",
     components |-> <<>>,
     visited |-> <<>>,
     cleaned |-> <<>>,
     exc |-> "None"]

\* _create_component_logger: logging.getLogger(f"component.{component_name}")
_create_component_logger(component_name) == "component." \o component_name

\* _initialize_component_data: the file is written only if there is none.
_initialize_component_data(m, component_name) ==
    IF DictHas(m.usage, LowerName(component_name)) THEN m
    ELSE [m EXCEPT !.usage = DictSet(@, LowerName(component_name),
                                 [component_name |-> component_name,
                                  usage_count |-> 0,
                                  last_used |-> None])]

\* log_component_usage(component_name, action): load the file, count a
\* "used", stamp last_used, save.
log_component_usage(m, component_name, action) ==
    IF ~DictHas(m.registered_components, component_name) THEN m
    ELSE LET data == DictGet(m.usage, LowerName(component_name))
             data1 == IF action = "used" THEN [data EXCEPT !.usage_count = @ + 1]
                      ELSE data
             data2 == [data1 EXCEPT !.last_used = Some(action)]
         IN  [m EXCEPT !.usage = DictSet(@, LowerName(component_name), data2)]

\* One component of reg_all_comps's loop, without the test that skips a
\* class name already registered.
reg_comp_again(m, component) ==
    IF component = None THEN m
    ELSE LET name == Val(component).class_name
             m1 == [m EXCEPT
                      !.registered_components = DictSet(@, name, Val(component)),
                      !.component_loggers = DictSet(@, name, _create_component_logger(name))]
         IN  log_component_usage(_initialize_component_data(m1, name), name, "initialized")

\* One component of reg_all_comps's loop.
reg_comp_of_all(m, component) ==
    IF component = None THEN m
    ELSE LET name == Val(component).class_name
         IN  IF DictHas(m.registered_components, name) THEN m
             ELSE LET m1 == [m EXCEPT
                      !.registered_components = DictSet(@, name, Val(component)),
                      !.component_loggers = DictSet(@, name, _create_component_logger(name))]
                  IN  log_component_usage(_initialize_component_data(m1, name),
                                          name, "initialized")

\* reg_all_comps(*components): for component in components
RECURSIVE RegLoop(_, _, _)
RegLoop(m, components, n) ==
    IF n > Len(components) THEN m
    ELSE RegLoop(reg_comp_of_all(m, components[n]), components, n + 1)

reg_all_comps(m, components) ==
    [RegLoop(m, components, 1) EXCEPT !.op = "reg_all_comps", !.exc = "None",
                                      !.components = components,
                                      !.visited = <<>>, !.cleaned = <<>>]

\* for method_name in cleanup_methods: the first attribute of the component
\* that is there and callable, from position k on (None: there is none).
RECURSIVE FirstCallable(_, _)
FirstCallable(component, k) ==
    IF k > Len(cleanup_methods) THEN None
    ELSE IF component.has[cleanup_methods[k]] \notin {"absent", "attribute"}
    THEN Some(cleanup_methods[k])
    ELSE FirstCallable(component, k + 1)

\* The first attribute of the component that is there, callable or not.
RECURSIVE FirstPresent(_, _)
FirstPresent(component, k) ==
    IF k > Len(cleanup_methods) THEN None
    ELSE IF component.has[cleanup_methods[k]] # "absent"
    THEN Some(cleanup_methods[k])
    ELSE FirstPresent(component, k + 1)

\* except Exception catches what the method raised
CaughtByException(e) == e \notin {"SystemExit", "KeyboardInterrupt", "GeneratorExit"}

\* cleanup_component that goes on to the next method when one raised.
cleanup_component_all_methods(m, component_name) ==
    IF ~DictHas(m.registered_components, component_name) THEN m
    ELSE LET component == DictGet(m.registered_components, component_name)
             present == {k \in 1..Len(cleanup_methods) :
                            component.has[cleanup_methods[k]] \notin {"absent", "attribute"}}
             calls == [j \in 1..Cardinality(present) |->
                          LET k == CHOOSE k \in present :
                                      Cardinality({l \in present : l < k}) = j - 1
                          IN  <<component_name, cleanup_methods[k]>>]
         IN  log_component_usage([m EXCEPT !.cleaned = @ \o calls],
                                 component_name, "cleanup")

\* cleanup_component(component_name); exc is what it lets out.
cleanup_component(m, component_name) ==
    IF ~DictHas(m.registered_components, component_name) THEN m
    ELSE LET component == DictGet(m.registered_components, component_name)
             method_name == FirstCallable(component, 1)
         IN  IF method_name = None
             THEN log_component_usage(m, component_name, "cleanup")
             ELSE LET m1 == [m EXCEPT !.cleaned =
                                  Append(@, <<component_name, Val(method_name)>>)]
                      result == component.has[Val(method_name)]
                  IN  IF result = "returns"
                      THEN log_component_usage(m1, component_name, "cleanup")
                      ELSE IF CaughtByException(result)
                      THEN log_component_usage(m1, component_name, "cleanup_error")
                      ELSE [m1 EXCEPT !.exc = result]

\* cleanup_all: for component_name in list(self.registered_components.keys())
RECURSIVE CleanupLoop(_, _, _)
CleanupLoop(m, names, n) ==
    IF n > Len(names) THEN m
    ELSE LET m1 == cleanup_component([m EXCEPT !.visited = Append(@, names[n])], names[n])
         IN  IF m1.exc # "None" THEN m1
             ELSE CleanupLoop(log_component_usage(m1, names[n], "exit"), names, n + 1)

cleanup_all(m) ==
    LET m0 == [m EXCEPT !.op = "cleanup_all", !.exc = "None", !.components = <<>>,
                        !.visited = <<>>, !.cleaned = <<>>]
    IN  IF m.is_shutting_down THEN m0
        ELSE LET m1 == CleanupLoop([m0 EXCEPT !.is_shutting_down = TRUE],
                                   DictKeys(m0.registered_components), 1)
             IN  [m1 EXCEPT !.is_shutting_down = FALSE]

\* What the actions on the ComponentManager leave alone.
NotManager == <<trayVars, logVars, robotVars, gridVars, retry, workflow, protocol>>

RegAllComps ==
    /\ manager # None
    /\ \E components \in SeqsUpTo({None} \cup {Some(c) : c \in Components}, MaxComponents) :
          manager' = Some(reg_all_comps(Val(manager), components))
    /\ UNCHANGED NotManager

CleanupAll ==
    /\ manager # None
    /\ manager' = Some(cleanup_all(Val(manager)))
    /\ UNCHANGED NotManager

\* log_component_usage(component_name, "used") on a registered component
LogUsed ==
    /\ manager # None
    /\ \E n \in 1..Len(Val(manager).registered_components) :
          LET name == Val(manager).registered_components[n][1]
          IN  /\ DictGet(Val(manager).usage, LowerName(name)).usage_count < MaxUsage
              /\ manager' = Some([log_component_usage(Val(manager), name, "used")
                                     EXCEPT !.op = "log_component_usage", !.exc = "None",
                                            !.components = <<>>,
                                            !.visited = <<>>, !.cleaned = <<>>])
    /\ UNCHANGED NotManager

\* A new ComponentManager; data_dir is empty or holds the balance's usage
\* file of an earlier run.
InitManager ==
    /\ trays = <<>>
    /\ files = <<>>
    /\ outcome = NoCall
    /\ RobotIdle
    /\ NoLogs
    /\ GridIdle
    /\ retry = None /\ workflow = None /\ protocol = None
    /\ \E usage \in {<<>>,
                     << <<"mtxprbalance", [component_name |-> "MTXPRBalance",
                                           usage_count |-> 1,
                                           last_used |-> Some("exit")]>> >>} :
          manager = Some(ComponentManager(usage))

NextManager ==
    \/ RegAllComps
    \/ CleanupAll
    \/ LogUsed

SpecManager == InitManager /\ [][NextManager]_vars

\* The cleanup methods the last cleanup_all called on a component.
CallsOn(m, name) == SelectSeq(m.cleaned, LAMBDA c : c[1] = name)

\* What the first callable cleanup attribute of a registered component
\* does when called ("absent" if it has none).
CleanupResult(m, name) ==
    LET component == DictGet(m.registered_components, name)
        method_name == FirstCallable(component, 1)
    IN  IF method_name = None THEN "absent" ELSE component.has[Val(method_name)]

\* C16: cleanup_all visits the registered components in order; on each it
\* calls at most one cleanup method, the first callable attribute among
\* disconnect, close, stop, cleanup, shutdown, and none if there is no such
\* attribute; an exception of class Exception raised by a cleanup method
\* does not prevent the remaining components from being cleaned up, and
\* only an exception outside Exception ends the loop, at that component.
C16_CleanupAll ==
    (manager # None /\ Val(manager).op = "cleanup_all") =>
        LET m == Val(manager)
            names == DictKeys(m.registered_components)
            fatal == {n \in 1..Len(names) :
                         CleanupResult(m, names[n]) \notin {"absent", "returns"}
                         /\ ~CaughtByException(CleanupResult(m, names[n]))}
        IN  /\ ~m.is_shutting_down
            /\ \A n \in 1..Len(names) :
                  (\A k \in fatal : n <= k) =>
                      /\ n <= Len(m.visited)
                      /\ m.visited[n] = names[n]
                      /\ CallsOn(m, names[n]) =
                             LET method_name ==
                                     FirstCallable(DictGet(m.registered_components,
                                                           names[n]), 1)
                             IN  IF method_name = None THEN <<>>
                                 ELSE << <<names[n], Val(method_name)>> >>
            /\ (fatal = {}) => (m.exc = "None" /\ m.visited = names)
            /\ \A k \in fatal :
                  (\A j \in fatal : k <= j) =>
                      (m.exc = CleanupResult(m, names[k]) /\ Len(m.visited) = k)

\* cleanup_all has gone past a component whose cleanup method raised: the
\* component after it was cleaned up as well.
C16_Witness ==
    /\ manager # None
    /\ Val(manager).op = "cleanup_all"
    /\ Val(manager).exc = "None"
    /\ Len(Val(manager).registered_components) >= 2
    /\ Val(manager).registered_components[1][1] = "URController"
    /\ Val(manager).cleaned[1] = <<"URController", "close">>
    /\ Len(Val(manager).cleaned) = 2

\* C16 as stated: every registered component is visited and exactly one
\* cleanup method is called on it, the first of the five it has.
C16_AsStated ==
    (manager # None /\ Val(manager).op = "cleanup_all") =>
        LET m == Val(manager)
            names == DictKeys(m.registered_components)
        IN  /\ m.visited = names
            /\ \A n \in 1..Len(names) :
                  LET method_name ==
                          FirstPresent(DictGet(m.registered_components, names[n]), 1)
                  IN  /\ method_name # None
                      /\ CallsOn(m, names[n]) = << <<names[n], Val(method_name)>> >>

\* The first of the components given whose class has the name.
RECURSIVE FirstOfClass(_, _, _)
FirstOfClass(components, name, n) ==
    IF n > Len(components) THEN None
    ELSE IF components[n] # None /\ Val(components[n]).class_name = name
    THEN components[n]
    ELSE FirstOfClass(components, name, n + 1)

---------------------------------------------------------------------------
(* workflow/ot_flex_pH_batch.py: PhProtocol.run_batch *)

\* experiments in one batch: 0 .. MaxBatch
MaxBatch == 2
\* acid and base volumes of an experiment: 1 .. MaxTransfer
MaxTransfer == 2

\* class PhExperiment(NamedTuple)
PhExperiment(well, acid_volume, base_volume) ==
    [well |-> well, acid_volume |-> acid_volume, base_volume |-> base_volume]

\* The experiments a batch is made of.
Experiments ==
    {PhExperiment(well, acid_volume, base_volume) :
        well \in {"A1", "B2"}, acid_volume \in 1..MaxTransfer,
        base_volume \in 1..MaxTransfer}

\* One call on self.ot, with the arguments that matter.
OtCall(call, labware, position, volume) ==
    [call |-> call, labware |-> labware, position |-> position, volume |-> volume]

\* The body of one loop of run_batch: aspirate from the source vial,
\* dispense into the experiment's well.
Transfer(source, well, volume) ==
    <<OtCall("get_location_from_labware", "vial_plate_6", source, 0),
      OtCall("move_to_pip", "", "", 0),
      OtCall("aspirate", "", "", volume),
      OtCall("get_location_from_labware", "plate_96_1", well, 0),
      OtCall("move_to_pip", "", "", 0),
      OtCall("dispense", "", "", volume)>>

\* for exp in batch, over the acid volumes
RECURSIVE AcidLoop(_, _)
AcidLoop(batch, n) ==
    IF n > Len(batch) THEN <<>>
    ELSE Transfer("A1", batch[n].well, batch[n].acid_volume) \o AcidLoop(batch, n + 1)

\* for exp in batch, over the base volumes
RECURSIVE BaseLoop(_, _)
BaseLoop(batch, n) ==
    IF n > Len(batch) THEN <<>>
    ELSE Transfer("B1", batch[n].well, batch[n].base_volume) \o BaseLoop(batch, n + 1)

\* run_batch that keeps the acid tip for the base.
run_batch_one_tip(batch) ==
    <<OtCall("pick_up_tip", "", "", 0)>>
    \o AcidLoop(batch, 1)
    \o BaseLoop(batch, 1)
    \o <<OtCall("drop_tip", "", "", 0)>>

\* run_batch(batch): the calls it makes on self.ot, in order.
run_batch(batch) ==
    <<OtCall("pick_up_tip", "", "", 0)>>
    \o AcidLoop(batch, 1)
    \o <<OtCall("drop_tip", "", "", 0)>>
    \o <<OtCall("pick_up_tip", "", "", 0)>>
    \o BaseLoop(batch, 1)
    \o <<OtCall("drop_tip", "", "", 0)>>

\* A PhProtocol and its OpenTrons client before run_batch: no tip on the
\* pipette, no location looked up, the pipette at home.  calls is what
\* the client has been asked to do, each call with the state it met.
PhProtocol ==
    [pc |-> "idle", batch |-> <<>>, todo |-> <<>>,
     tip |-> FALSE, location |-> None, at |-> None,
     calls |-> <<>>, ret |-> None]

\* The next call of run_batch is made, and recorded with what the pipette
\* held and where it was when the call arrived.
Called(p) ==
    [p EXCEPT !.todo = Tail(@),
              !.calls = Append(@, [call |-> Head(p.todo).call,
                                   volume |-> Head(p.todo).volume,
                                   tip |-> p.tip, at |-> p.at])]

\* What the actions on the protocol leave alone.
NotProtocol == <<trayVars, logVars, robotVars, gridVars, retry, manager, workflow>>

NextCallIs(call) ==
    /\ protocol # None
    /\ Val(protocol).pc = "running"
    /\ Val(protocol).todo # <<>>
    /\ Head(Val(protocol).todo).call = call

RunBatch ==
    /\ protocol # None
    /\ Val(protocol).pc = "idle"
    /\ \E batch \in SeqsUpTo(Experiments, MaxBatch) :
          protocol' = Some([Val(protocol) EXCEPT !.pc = "running", !.batch = batch,
                                                 !.todo = run_batch(batch)])
    /\ UNCHANGED NotProtocol

PickUpTip ==
    /\ NextCallIs("pick_up_tip")
    /\ protocol' = Some([Called(Val(protocol)) EXCEPT !.tip = TRUE])
    /\ UNCHANGED NotProtocol

GetLocationFromLabware ==
    /\ NextCallIs("get_location_from_labware")
    /\ protocol' = Some([Called(Val(protocol)) EXCEPT !.location =
                            Some(<<Head(Val(protocol).todo).labware,
                                   Head(Val(protocol).todo).position>>)])
    /\ UNCHANGED NotProtocol

MoveToPip ==
    /\ NextCallIs("move_to_pip")
    /\ protocol' = Some([Called(Val(protocol)) EXCEPT !.at = Val(protocol).location])
    /\ UNCHANGED NotProtocol

Aspirate ==
    /\ NextCallIs("aspirate")
    /\ protocol' = Some(Called(Val(protocol)))
    /\ UNCHANGED NotProtocol

Dispense ==
    /\ NextCallIs("dispense")
    /\ protocol' = Some(Called(Val(protocol)))
    /\ UNCHANGED NotProtocol

DropTip ==
    /\ NextCallIs("drop_tip")
    /\ protocol' = Some([Called(Val(protocol)) EXCEPT !.tip = FALSE])
    /\ UNCHANGED NotProtocol

\* return results
ReturnResults ==
    /\ protocol # None
    /\ Val(protocol).pc = "running"
    /\ Val(protocol).todo = <<>>
    /\ protocol' = Some([Val(protocol) EXCEPT !.pc = "returned", !.ret = Some(<<>>)])
    /\ UNCHANGED NotProtocol

InitProtocol ==
    /\ trays = <<>>
    /\ files = <<>>
    /\ outcome = NoCall
    /\ RobotIdle
    /\ NoLogs
    /\ GridIdle
    /\ retry = None /\ manager = None /\ workflow = None
    /\ protocol = Some(PhProtocol)

NextProtocol ==
    \/ RunBatch
    \/ PickUpTip
    \/ GetLocationFromLabware
    \/ MoveToPip
    \/ Aspirate
    \/ Dispense
    \/ DropTip
    \/ ReturnResults

SpecProtocol == InitProtocol /\ [][NextProtocol]_vars

\* The positions in calls of the calls with one of the names, in order.
RECURSIVE PositionsOf(_, _, _)
PositionsOf(calls, names, n) ==
    IF n > Len(calls) THEN <<>>
    ELSE (IF calls[n].call \in names THEN <<n>> ELSE <<>>)
         \o PositionsOf(calls, names, n + 1)

\* C18: in run_batch pick_up_tip and drop_tip alternate, starting with a
\* pick-up and, once it returned, ending with a drop after exactly two
\* tips; every aspirate happens with a tip on the pipette and is followed,
\* before the next aspirate, by a dispense of the same volume into the
\* experiment's well; all acid transfers come before any base transfer.
C18_TwoTips ==
    protocol # None =>
        LET p == Val(protocol)
            tips == PositionsOf(p.calls, {"pick_up_tip", "drop_tip"}, 1)
            liquid == PositionsOf(p.calls, {"aspirate", "dispense"}, 1)
            L == Len(p.batch)
        IN  /\ \A k \in 1..Len(tips) :
                  /\ p.calls[tips[k]].call =
                         (IF k % 2 = 1 THEN "pick_up_tip" ELSE "drop_tip")
                  /\ p.calls[tips[k]].tip = (k % 2 = 0)
            /\ Len(p.calls) > 0 => p.calls[1].call = "pick_up_tip"
            /\ \A k \in 1..Len(liquid) :
                  LET c == p.calls[liquid[k]]
                      n == (k + 1) \div 2
                      exp == p.batch[IF n <= L THEN n ELSE n - L]
                      volume == IF n <= L THEN exp.acid_volume ELSE exp.base_volume
                  IN  /\ n <= 2 * L
                      /\ c.tip
                      /\ c.volume = volume
                      /\ k % 2 = 1 =>
                            /\ c.call = "aspirate"
                            /\ c.at = Some(<<"vial_plate_6",
                                             IF n <= L THEN "A1" ELSE "B1">>)
                      /\ k % 2 = 0 =>
                            /\ c.call = "dispense"
                            /\ c.at = Some(<<"plate_96_1", exp.well>>)
            /\ p.pc = "returned" =>
                  /\ Len(tips) = 4
                  /\ Len(liquid) = 4 * L
                  /\ p.calls[Len(p.calls)].call = "drop_tip"
                  /\ tips[2] < tips[3]
                  /\ \A k \in 1..Len(liquid) :
                        IF (k + 1) \div 2 <= L
                        THEN tips[1] < liquid[k] /\ liquid[k] < tips[2]
                        ELSE tips[3] < liquid[k] /\ liquid[k] < tips[4]
                  /\ ~p.tip

\* run_batch returned from a batch of two experiments on different wells
\* with different volumes.
C18_Witness ==
    /\ protocol # None
    /\ Val(protocol).pc = "returned"
    /\ Len(Val(protocol).batch) = 2
    /\ Val(protocol).batch[1].well # Val(protocol).batch[2].well
    /\ Val(protocol).batch[1].acid_volume # Val(protocol).batch[1].base_volume
    /\ Val(protocol).batch[1].acid_volume # Val(protocol).batch[2].acid_volume

====
